---- MODULE Spec2Model ----
(***************************************************************************)
(* Expense Tracker AI Assistant (src/main.py): the three request handlers  *)
(* upload_expenses, chat and health_check, the chunk builder               *)
(* process_excel_data, and the vector index (the chroma client) they       *)
(* share.  A handler is split into steps at its calls on the vector index: *)
(* the code takes no lock around them, so steps of different requests      *)
(* (workers sharing the persisted index) interleave freely.                *)
(***************************************************************************)
EXTENDS Integers, Sequences, FiniteSets, TLC

(* ------------------------------ bounds -------------------------------- *)
MaxUploads == 2
MaxChats == 2
MaxRows == 2

(* ------------------------- program constants -------------------------- *)
TopK == 5

required_columns == <<"name", "price", "category", "date">>

\* the accepted suffixes of file.filename.endswith(('.xlsx', '.xls'))
ExcelSuffixes == { <<".", "x", "l", "s", "x">>, <<".", "x", "l", "s">> }

EndsWith(s, suf) ==
    /\ Len(s) >= Len(suf)
    /\ SubSeq(s, Len(s) - Len(suf) + 1, Len(s)) = suf

IsExcelName(filename) == \E suf \in ExcelSuffixes : EndsWith(filename, suf)

\* [col for col in required_columns if col not in df.columns]
MissingColumns(columns) == SelectSeq(required_columns, LAMBDA c : c \notin columns)

(* ------------------------- collection naming -------------------------- *)
\* user_id.replace('-', '_'), user ids being sequences of characters
ReplaceHyphen(s) == [i \in 1..Len(s) |-> IF s[i] = "-" THEN "_" ELSE s[i]]

\* a slip: the name leaves the user identifier out
CollectionNameShared(user_id) == <<"expenses_">>

\* f"expenses_{user_id.replace('-', '_')}"
CollectionName(user_id) == <<"expenses_">> \o ReplaceHyphen(user_id)

(* --------------------------- chunk builder ---------------------------- *)
\* a slip: the rows are grouped by their date, not by its month
ToPeriodD(date) == (date.y * 12 + (date.m - 1)) * 31 + (date.d - 1)

\* df['date'].dt.to_period('M'): a date [y, m, d] to its calendar month
ToPeriodM(date) == date.y * 12 + (date.m - 1)

\* pandas sorts the group keys; categories are ordered alphabetically
CategoryOrder == <<"Food", "Housing">>

CatRank(c) == CHOOSE i \in 1..Len(CategoryOrder) : CategoryOrder[i] = c

RECURSIVE SortedSeq(_)
\* the elements of the finite set of integers S in increasing order
SortedSeq(S) ==
    IF S = {} THEN <<>>
    ELSE LET x == CHOOSE e \in S : \A o \in S : e <= o
         IN <<x>> \o SortedSeq(S \ {x})

RECURSIVE SumPrice(_)
SumPrice(rows) ==
    IF rows = <<>> THEN 0 ELSE Head(rows).price + SumPrice(Tail(rows))

\* mean of the prices (cents), rounded to the cent as ${avg:.2f} prints it
MeanPrice(rows) == (2 * SumPrice(rows) + Len(rows)) \div (2 * Len(rows))

MonthsOf(rows) == { ToPeriodM(rows[i].date) : i \in 1..Len(rows) }

CategoriesOf(rows) == { rows[i].category : i \in 1..Len(rows) }

\* x.value_counts().to_dict(): category -> number of rows, for one group
ValueCounts(rows) ==
    [c \in CategoriesOf(rows) |->
        Cardinality({i \in 1..Len(rows) : rows[i].category = c})]

\* the fields a chunk's text or metadata does not carry hold these fillers
NoDate == [y |-> 0, m |-> 0, d |-> 0]

NoCounts == [c \in {} |-> 0]

\* lines 98-112: the text and metadata of one month's summary
MonthlyChunk(rows, month) ==
    LET grp == SelectSeq(rows, LAMBDA t : ToPeriodM(t.date) = month)
    IN [text |-> [head |-> "Month", month |-> month, date |-> NoDate, name |-> "",
                  category |-> "", total |-> SumPrice(grp), mean |-> 0,
                  count |-> Len(grp), categories |-> ValueCounts(grp)],
        metadata |-> [type |-> "monthly_summary", month |-> month,
                      date |-> NoDate, category |-> ""]]

\* lines 119-133: the text and metadata of one category's summary
CategoryChunk(rows, category) ==
    LET grp == SelectSeq(rows, LAMBDA t : t.category = category)
    IN [text |-> [head |-> "Category", month |-> 0, date |-> NoDate, name |-> "",
                  category |-> category, total |-> SumPrice(grp),
                  mean |-> MeanPrice(grp), count |-> Len(grp),
                  categories |-> NoCounts],
        metadata |-> [type |-> "category_summary", month |-> 0,
                      date |-> NoDate, category |-> category]]

\* lines 136-149: the text and metadata of one transaction
TransactionChunk(t) ==
    [text |-> [head |-> "Transaction", month |-> 0, date |-> t.date,
               name |-> t.name, category |-> t.category, total |-> t.price,
               mean |-> 0, count |-> 1, categories |-> NoCounts],
     metadata |-> [type |-> "transaction", month |-> 0, date |-> t.date,
                   category |-> t.category]]

\* df.groupby('month'): one group per distinct month, keys sorted
MonthKeys(rows) == SortedSeq(MonthsOf(rows))

\* df.groupby('category'): one group per distinct category, keys sorted
CategoryKeys(rows) ==
    LET ranks == SortedSeq({ CatRank(c) : c \in CategoriesOf(rows) })
    IN [i \in 1..Len(ranks) |-> CategoryOrder[ranks[i]]]

process_excel_data(rows) ==
    LET months == MonthKeys(rows)
        cats == CategoryKeys(rows)
    IN [i \in 1..Len(months) |-> MonthlyChunk(rows, months[i])]
       \o [i \in 1..Len(cats) |-> CategoryChunk(rows, cats[i])]
       \o [i \in 1..Len(rows) |-> TransactionChunk(rows[i])]

(* ------------------------------ inputs -------------------------------- *)
\* user identifiers, as sequences of characters
Users == { <<"a", "-", "b">>, <<"a", "_", "b">>, <<"c">> }

CollNames == { CollectionName(u) : u \in Users }

AllColumns == {"name", "price", "category", "date"}

Coffee ==
    [name |-> "Coffee", price |-> 450, category |-> "Food",
     date |-> [y |-> 2024, m |-> 1, d |-> 5]]

Rent ==
    [name |-> "Rent", price |-> 120000, category |-> "Housing",
     date |-> [y |-> 2024, m |-> 1, d |-> 1]]

Lunch ==
    [name |-> "Lunch", price |-> 1250, category |-> "Food",
     date |-> [y |-> 2024, m |-> 2, d |-> 1]]

\* the uploaded files: a filename, the columns of the sheet, and its rows
Files ==
    << [filename |-> <<"j", "a", "n", ".", "x", "l", "s", "x">>,
        columns |-> AllColumns, rows |-> <<Coffee, Rent>>],
       [filename |-> <<"f", "e", "b", ".", "x", "l", "s">>,
        columns |-> AllColumns, rows |-> <<Lunch>>],
       [filename |-> <<"n", "o", "c", "a", "t", ".", "x", "l", "s", "x">>,
        columns |-> AllColumns \ {"category"}, rows |-> <<>>],
       [filename |-> <<"j", "a", "n", ".", "c", "s", "v">>,
        columns |-> AllColumns, rows |-> <<Coffee, Rent>>] >>

\* what the probe of the language-model endpoint can come back with
ProbeOutcomes ==
    { [kind |-> "response", code |-> 200], [kind |-> "response", code |-> 503],
      [kind |-> "timeout", code |-> 0], [kind |-> "connect_error", code |-> 0] }

\* the rows the chunk builder is applied to on its own
Names == {"Coffee", "Rent"}

Prices == {450, 120000}

Dates ==
    { [y |-> 2024, m |-> 1, d |-> 1], [y |-> 2024, m |-> 1, d |-> 5],
      [y |-> 2024, m |-> 2, d |-> 1] }

Transactions ==
    [name : Names, price : Prices, category : {"Food", "Housing"}, date : Dates]

RowSeqs == UNION { [1..n -> Transactions] : n \in 0..MaxRows }

(* ------------------------------- state -------------------------------- *)
VARIABLES
    index,      \* the vector index: collection name -> collection or NoColl
    up,         \* the upload requests: position, inputs, response
    ch,         \* the chat requests: position, inputs, response
    last,       \* per collection name, the validated upload that finished last
    health,     \* the last health check: probe outcome and response
    peRows,     \* the rows handed to the chunk builder on its own
    peChunks    \* whether it has returned, and the chunks it returned

vars == <<index, up, ch, last, health, peRows, peChunks>>

Uploads == 1..MaxUploads

Chats == 1..MaxChats

NoColl == [uid |-> 0, user |-> <<>>, docs |-> <<>>]

NoUpload ==
    [pc |-> "idle", user |-> <<>>, file |-> 0, handle |-> 0, replaced |-> FALSE,
     status |-> 0, detail |-> "", missing |-> <<>>, stored |-> <<>>]

NoChat ==
    [pc |-> "idle", user |-> <<>>, handle |-> 0, during |-> {}, status |-> 0,
     detail |-> "", retrieved |-> <<>>, sources |-> <<>>]

NoHealth == [probe |-> [kind |-> "none", code |-> 0], status |-> 0,
             body |-> [status |-> "", lm_studio_connected |-> FALSE]]

NotBuilt == [done |-> FALSE, chunks |-> <<>>]

Init ==
    /\ index = [n \in CollNames |-> NoColl]
    /\ up = [r \in Uploads |-> NoUpload]
    /\ ch = [c \in Chats |-> NoChat]
    /\ last = [n \in CollNames |-> 0]
    /\ health = NoHealth
    /\ peRows = <<>>
    /\ peChunks = NotBuilt

(* ---------------------------- exceptions ------------------------------ *)
\* raise HTTPException(status_code=status, detail=detail)
HTTPException(status, detail) == [http |-> TRUE, status |-> status, detail |-> detail]

\* any other exception, raised by a library call
Exception(detail) == [http |-> FALSE, status |-> 0, detail |-> detail]

\* upload_expenses: except Exception as e: raise HTTPException(500, str(e))
UploadExcept(exc) == [status |-> 500, detail |-> exc.detail]

\* a slip: chat without its "except HTTPException: raise"
ChatExceptAll(exc) == [status |-> 500, detail |-> exc.detail]

\* chat: except HTTPException: raise / except Exception as e: raise 500
ChatExcept(exc) ==
    IF exc.http THEN [status |-> exc.status, detail |-> exc.detail]
    ELSE [status |-> 500, detail |-> exc.detail]

(* --------------------------- vector index ----------------------------- *)
\* chroma_client.delete_collection(name); raising when absent is swallowed
DeleteCollection(idx, name) == [idx EXCEPT ![name] = NoColl]

\* chroma_client.create_collection: a new collection under a fresh id
NewCollection(uid, user_id) == [uid |-> uid, user |-> user_id, docs |-> <<>>]

\* collection.add: records whose id the collection already holds are skipped
AddDocs(docs, new) ==
    docs \o SelectSeq(new, LAMBDA d : \A i \in 1..Len(docs) : docs[i].id # d.id)

\* a slip: a handle that finds its collection by name
HandleLiveByName(idx, name, handle) == idx[name] # NoColl

\* a collection handle works as long as the index holds that very collection
HandleLive(idx, name, handle) == idx[name] # NoColl /\ idx[name].uid = handle

\* collection.query(n_results=5): at most TopK of the stored records
QueryTop(docs) == SubSeq(docs, 1, IF Len(docs) < TopK THEN Len(docs) ELSE TopK)

\* a slip: the ids run on from one upload to the next instead of from 0
ChunkIdsRunning(user_id, n) ==
    LET before == Cardinality({ r \in DOMAIN up : up[r].pc = "done" })
    IN [i \in 1..n |-> <<user_id, before * n + i - 1>>]

\* ids = [f"{user_id}_{i}" for i in range(len(chunks))]
ChunkIds(user_id, n) == [i \in 1..n |-> <<user_id, i - 1>>]

\* the records upload r adds: ids, texts, metadatas (and the upload they are of)
UploadDocs(r, user_id, chunks) ==
    LET ids == ChunkIds(user_id, Len(chunks))
    IN [i \in 1..Len(chunks) |->
          [id |-> ids[i], text |-> chunks[i].text,
           metadata |-> chunks[i].metadata, of |-> r]]

(* ------------------------- upload_expenses ---------------------------- *)
\* an error response: the request's locals are gone; the user it was for
\* and the response remain
UploadDone(r, user_id, resp, missing) ==
    up' = [up EXCEPT ![r] = [NoUpload EXCEPT !.pc = "done", !.user = user_id,
                                             !.status = resp.status,
                                             !.detail = resp.detail,
                                             !.missing = missing]]

\* requests are numbered in their order of arrival
MayArrive(reqs, r) ==
    /\ reqs[r].pc = "idle"
    /\ IF r = 1 THEN TRUE ELSE reqs[r - 1].pc # "idle"

\* a slip: the old collection is deleted before the request is validated
UploadValidateDeleteFirst(r, user_id, f) ==
    /\ MayArrive(up, r)
    /\ index' = DeleteCollection(index, CollectionName(user_id))
    /\ LET file == Files[f]
           missing_columns == MissingColumns(file.columns)
           req == [up[r] EXCEPT !.user = user_id, !.file = f]
       IN IF ~IsExcelName(file.filename)
          THEN UploadDone(r, user_id,
                          HTTPException(400, "Only Excel files are supported"), <<>>)
          ELSE IF missing_columns # <<>>
          THEN UploadDone(r, user_id,
                          UploadExcept(HTTPException(400, "Missing required columns")),
                          missing_columns)
          ELSE up' = [up EXCEPT ![r] = [req EXCEPT !.pc = "delete"]]
    /\ UNCHANGED <<ch, last, health, peRows, peChunks>>

\* lines 158-175: the filename check, read_excel, the column check, the chunks
UploadValidate(r, user_id, f) ==
    /\ MayArrive(up, r)
    /\ LET file == Files[f]
           missing_columns == MissingColumns(file.columns)
           req == [up[r] EXCEPT !.user = user_id, !.file = f]
       IN IF ~IsExcelName(file.filename)
          THEN UploadDone(r, user_id,
                          HTTPException(400, "Only Excel files are supported"), <<>>)
          ELSE IF missing_columns # <<>>
          THEN UploadDone(r, user_id,
                          UploadExcept(HTTPException(400, "Missing required columns")),
                          missing_columns)
          ELSE up' = [up EXCEPT ![r] = [req EXCEPT !.pc = "delete"]]
    /\ UNCHANGED <<index, ch, last, health, peRows, peChunks>>

\* lines 177-184: the collection name, and the best-effort delete
UploadDelete(r) ==
    /\ up[r].pc = "delete"
    /\ index' = DeleteCollection(index, CollectionName(up[r].user))
    /\ up' = [up EXCEPT ![r].pc = "create",
                        ![r].replaced = index[CollectionName(up[r].user)].docs # <<>>]
    /\ UNCHANGED <<ch, last, health, peRows, peChunks>>

\* a slip: get_or_create_collection in the place of create_collection
UploadCreateGetOrCreate(r) ==
    /\ up[r].pc = "create"
    /\ LET name == CollectionName(up[r].user)
       IN IF index[name] # NoColl
          THEN /\ up' = [up EXCEPT ![r].pc = "add", ![r].handle = index[name].uid]
               /\ UNCHANGED index
          ELSE /\ index' = [index EXCEPT ![name] = NewCollection(r, up[r].user)]
               /\ up' = [up EXCEPT ![r].pc = "add", ![r].handle = r]
    /\ UNCHANGED <<ch, last, health, peRows, peChunks>>

\* lines 186-190: create_collection, which raises when the name is taken
UploadCreate(r) ==
    /\ up[r].pc = "create"
    /\ LET name == CollectionName(up[r].user)
       IN IF index[name] # NoColl
          THEN /\ UploadDone(r, up[r].user,
                             UploadExcept(Exception("collection already exists")), <<>>)
               /\ last' = [last EXCEPT ![name] = r]
               /\ UNCHANGED index
          ELSE /\ index' = [index EXCEPT ![name] = NewCollection(r, up[r].user)]
               /\ up' = [up EXCEPT ![r].pc = "add", ![r].handle = r]
               /\ UNCHANGED last
    /\ UNCHANGED <<ch, health, peRows, peChunks>>

\* a slip: an add that fails after it has stored the first record
UploadAddPartial(r, embed_ok, add_ok) ==
    /\ up[r].pc = "add"
    /\ LET name == CollectionName(up[r].user)
           chunks == process_excel_data(Files[up[r].file].rows)
           docs == UploadDocs(r, up[r].user, chunks)
       IN IF ~embed_ok
          THEN /\ UploadDone(r, up[r].user,
                             UploadExcept(Exception("embedding failed")), <<>>)
               /\ UNCHANGED index
          ELSE IF ~HandleLive(index, name, up[r].handle)
          THEN /\ UploadDone(r, up[r].user,
                             UploadExcept(Exception("collection does not exist")), <<>>)
               /\ UNCHANGED index
          ELSE IF ~add_ok
          THEN /\ UploadDone(r, up[r].user,
                             UploadExcept(Exception("add failed")), <<>>)
               /\ index' = [index EXCEPT ![name].docs = AddDocs(@, SubSeq(docs, 1, 1))]
          ELSE /\ index' = [index EXCEPT ![name].docs = AddDocs(@, docs)]
               /\ up' = [up EXCEPT ![r].pc = "done", ![r].status = 200,
                                   ![r].detail = "success",
                                   ![r].stored = index'[name].docs]
    /\ last' = [last EXCEPT ![CollectionName(up[r].user)] = r]
    /\ UNCHANGED <<ch, health, peRows, peChunks>>

\* lines 192-211: the embeddings, collection.add, and the success response
UploadAdd(r, embed_ok, add_ok) ==
    /\ up[r].pc = "add"
    /\ LET name == CollectionName(up[r].user)
           chunks == process_excel_data(Files[up[r].file].rows)
       IN IF ~embed_ok
          THEN /\ UploadDone(r, up[r].user,
                             UploadExcept(Exception("embedding failed")), <<>>)
               /\ UNCHANGED index
          ELSE IF ~HandleLive(index, name, up[r].handle)
          THEN /\ UploadDone(r, up[r].user,
                             UploadExcept(Exception("collection does not exist")), <<>>)
               /\ UNCHANGED index
          ELSE IF ~add_ok
          THEN /\ UploadDone(r, up[r].user,
                             UploadExcept(Exception("add failed")), <<>>)
               /\ UNCHANGED index
          ELSE /\ index' = [index EXCEPT ![name].docs =
                              AddDocs(@, UploadDocs(r, up[r].user, chunks))]
               /\ up' = [up EXCEPT ![r].pc = "done", ![r].status = 200,
                                   ![r].detail = "success",
                                   ![r].stored = index'[name].docs]
    /\ last' = [last EXCEPT ![CollectionName(up[r].user)] = r]
    /\ UNCHANGED <<ch, health, peRows, peChunks>>

(* ------------------------------- chat --------------------------------- *)
\* the uploads that, when a chat looks its collection up, are between their
\* delete and their add on that collection (kept to tell what the chat saw)
Replacing(name) ==
    { r \in DOMAIN up : /\ up[r].pc \in {"create", "add"}
                        /\ CollectionName(up[r].user) = name }

\* an error response; the request keeps the user it was for
ChatDone(c, user_id, during, resp) ==
    ch' = [ch EXCEPT ![c] = [NoChat EXCEPT !.pc = "done", !.user = user_id,
                                           !.during = during,
                                           !.status = resp.status,
                                           !.detail = resp.detail]]

\* lines 221-231: the collection name and get_collection
ChatLookup(c, user_id) ==
    /\ MayArrive(ch, c)
    /\ LET name == CollectionName(user_id)
           req == [ch[c] EXCEPT !.user = user_id]
       IN IF index[name] = NoColl
          THEN ChatDone(c, user_id, Replacing(name), ChatExcept(HTTPException(404,
                   "No expense data found. Please upload an Excel file first.")))
          ELSE ch' = [ch EXCEPT ![c] =
                        [req EXCEPT !.pc = "query", !.handle = index[name].uid,
                                    !.during = Replacing(name)]]
    /\ UNCHANGED <<index, up, last, health, peRows, peChunks>>

\* lines 233-256: embed_query, collection.query, call_lm_studio, the response
ChatQuery(c, embed_ok, lm_ok) ==
    /\ ch[c].pc = "query"
    /\ LET name == CollectionName(ch[c].user)
           docs == QueryTop(index[name].docs)
       IN IF ~embed_ok
          THEN ChatDone(c, ch[c].user, ch[c].during, ChatExcept(Exception("embedding failed")))
          ELSE IF ~HandleLive(index, name, ch[c].handle)
          THEN ChatDone(c, ch[c].user, ch[c].during, ChatExcept(Exception("collection does not exist")))
          ELSE IF ~lm_ok
          THEN ChatDone(c, ch[c].user, ch[c].during, ChatExcept(HTTPException(500, "LM Studio error")))
          ELSE ch' = [ch EXCEPT ![c].pc = "done", ![c].status = 200,
                                ![c].detail = "answer", ![c].handle = 0,
                                ![c].retrieved = docs,
                                ![c].sources =
                                    [i \in 1..Len(docs) |-> docs[i].metadata.type]]
    /\ UNCHANGED <<index, up, last, health, peRows, peChunks>>

(* --------------------------- health_check ----------------------------- *)
\* a slip: any response counts as connected
LmStudioStatusAnyResponse(outcome) == outcome.kind = "response"

\* lines 263-269: response.status_code == 200, or False when the probe raises
LmStudioStatus(outcome) == outcome.kind = "response" /\ outcome.code = 200

\* lines 259-274
HealthCheck(outcome) ==
    /\ health' = [probe |-> outcome, status |-> 200,
                  body |-> [status |-> "healthy",
                            lm_studio_connected |-> LmStudioStatus(outcome)]]
    /\ UNCHANGED <<index, up, ch, last, peRows, peChunks>>

(* -------------------------- specifications ---------------------------- *)
Next ==
    \/ \E r \in DOMAIN up, u \in Users, f \in 1..Len(Files) : UploadValidate(r, u, f)
    \/ \E r \in DOMAIN up : UploadDelete(r)
    \/ \E r \in DOMAIN up : UploadCreate(r)
    \/ \E r \in DOMAIN up, embed_ok \in BOOLEAN, add_ok \in BOOLEAN :
          UploadAdd(r, embed_ok, add_ok)
    \/ \E c \in DOMAIN ch, u \in Users : ChatLookup(c, u)
    \/ \E c \in DOMAIN ch, embed_ok \in BOOLEAN, lm_ok \in BOOLEAN :
          ChatQuery(c, embed_ok, lm_ok)

Spec == Init /\ [][Next]_vars

\* what shares no state: the chunk builder applied to every row sequence of
\* the bounds, and the health check
InitLocal ==
    /\ index = [n \in CollNames |-> NoColl]
    /\ up = [r \in Uploads |-> NoUpload]
    /\ ch = [c \in Chats |-> NoChat]
    /\ last = [n \in CollNames |-> 0]
    /\ health = NoHealth
    /\ peRows \in RowSeqs
    /\ peChunks = NotBuilt

BuildChunks ==
    /\ ~peChunks.done
    /\ peChunks' = [done |-> TRUE, chunks |-> process_excel_data(peRows)]
    /\ UNCHANGED <<index, up, ch, last, health, peRows>>

NextLocal == BuildChunks \/ \E o \in ProbeOutcomes : HealthCheck(o)

SpecLocal == InitLocal /\ [][NextLocal]_vars

(* ------------------------------ claims -------------------------------- *)
NameOf(r) == CollectionName(up[r].user)

Succeeded(r) == up[r].pc = "done" /\ up[r].status = 200

\* two record sequences with the same count, ids and texts
SameRecords(a, b) ==
    /\ Len(a) = Len(b)
    /\ \A i \in 1..Len(a) : a[i].id = b[i].id /\ a[i].text = b[i].text

\* every record of the sequence comes from one upload
OneUpload(docs) == \A i, j \in 1..Len(docs) : docs[i].of = docs[j].of

\* C1: an upload with an accepted extension whose sheet lacks required
\* columns is answered with a 400-class status (and the missing columns).
C1_MissingColumnsGive400 ==
    \A r \in DOMAIN up :
        (up[r].pc = "done" /\ up[r].missing # <<>>) => up[r].status \in 400..499

\* C2: in every reachable state, the steps of uploads interleaved anyhow, the
\* records of a collection all come from a single upload.
C2_SingleUploadPerCollection == \A n \in DOMAIN index : OneUpload(index[n].docs)

C2_Replaced ==
    \E r1, r2 \in DOMAIN up :
        /\ r1 # r2 /\ Succeeded(r1) /\ up[r1].stored # <<>>
        /\ NameOf(r1) = NameOf(r2) /\ up[r1].file # up[r2].file
        /\ index[NameOf(r2)].docs # <<>>
        /\ index[NameOf(r2)].docs[1].of = r2

\* C3: two successful uploads of the same spreadsheet for the same user leave
\* the collection with the same chunk count, ids and texts.
C3_ReuploadIdempotent ==
    \A r1, r2 \in DOMAIN up :
        (Succeeded(r1) /\ Succeeded(r2) /\ up[r1].user = up[r2].user
            /\ up[r1].file = up[r2].file)
        => SameRecords(up[r1].stored, up[r2].stored)

C3_Reuploaded ==
    \E r1, r2 \in DOMAIN up :
        /\ r1 < r2 /\ Succeeded(r1) /\ Succeeded(r2)
        /\ up[r1].user = up[r2].user /\ up[r1].file = up[r2].file
        /\ up[r1].stored # <<>>
        /\ index[NameOf(r2)].docs = up[r2].stored
        /\ index[NameOf(r2)].docs[1].of = r2

\* C4, as claimed: a chat for u, no upload having been made with the user
\* identifier u, gets the 404 result.
C4_NoUploadGives404 ==
    \A c \in DOMAIN ch :
        (ch[c].pc # "idle" /\ \A r \in DOMAIN up : up[r].user # ch[c].user)
        => (ch[c].pc = "done" /\ ch[c].status = 404)

\* C4, amended: a chat for u, no upload having been made with an identifier
\* of the same collection name as u's, gets the 404 result telling the
\* caller to upload first.
C4_NoUploadOnNameGives404 ==
    \A c \in DOMAIN ch :
        (/\ ch[c].pc # "idle"
         /\ \A r \in DOMAIN up :
               up[r].pc = "idle" \/ NameOf(r) # CollectionName(ch[c].user))
        => (/\ ch[c].pc = "done" /\ ch[c].status = 404
            /\ ch[c].detail = "No expense data found. Please upload an Excel file first."
            /\ ch[c].sources = <<>>)

C4_NotFoundBesideOther ==
    \E c \in DOMAIN ch, r \in DOMAIN up :
        /\ ch[c].pc = "done" /\ ch[c].status = 404
        /\ Succeeded(r) /\ index[NameOf(r)].docs # <<>>
        /\ \A r2 \in DOMAIN up :
              up[r2].pc = "idle" \/ NameOf(r2) # CollectionName(ch[c].user)

\* two user identifiers that stay distinct once hyphens are underscores
NamesDiffer(u, other) == ReplaceHyphen(u) # ReplaceHyphen(other)

\* what a step of an upload for one user leaves of another's collection
StepsLeave(u, other) ==
    \A r \in DOMAIN up :
        (up'[r] # up[r] /\ up'[r].user = other)
        => index'[CollectionName(u)] = index[CollectionName(u)]

\* the uploads between their validation and their response
InFlight == { r \in DOMAIN up : up[r].pc \in {"delete", "create", "add"} }

\* the collection of u holds exactly what upload r stored
Holds(u, r) ==
    /\ SameRecords(index[CollectionName(u)].docs, up[r].stored)
    /\ \A i \in 1..Len(index[CollectionName(u)].docs) :
          index[CollectionName(u)].docs[i].of = r

\* C5, as claimed: for any two distinct user identifiers, no step of an
\* upload for the one changes the collection of the other, and a user's
\* collection holds exactly the chunks of his successful upload whatever the
\* uploads for other users did.
C5_DistinctUsersIndependent ==
    /\ [][\A u, other \in Users : u # other => StepsLeave(u, other)]_vars
    /\ [](\A r \in DOMAIN up :
            (/\ Succeeded(r)
             /\ \A r2 \in DOMAIN up \ {r} : up[r2].user # up[r].user)
            => Holds(up[r].user, r))

\* C5, amended: the same for any two user identifiers whose collection names
\* (hyphens replaced by underscores) differ: once the uploads for u (and for
\* the identifiers of the same collection name, if any) are over, the last to
\* finish having succeeded, u's collection holds exactly its chunks.
C5_DistinctNamesIndependent ==
    /\ [][\A u, other \in Users : NamesDiffer(u, other) => StepsLeave(u, other)]_vars
    /\ [](\A u \in Users :
            LET r == last[CollectionName(u)]
            IN (/\ r # 0 /\ Succeeded(r)
                /\ \A r2 \in InFlight : NamesDiffer(up[r2].user, u))
               => Holds(u, r))

C5_Interleaved ==
    /\ up[1].pc = "add" /\ Succeeded(2)
    /\ NamesDiffer(up[1].user, up[2].user) /\ last[NameOf(2)] = 2
    /\ index[NameOf(2)].docs = up[2].stored /\ up[2].stored # <<>>
    /\ index[NameOf(1)] = NewCollection(1, up[1].user)

\* C6: the health check always answers 200 {status: "healthy",
\* lm_studio_connected: b}; b is false whenever the probe fails or times out,
\* and true only when the probe came back with status 200.
C6_HealthNeverFails ==
    health.probe.kind # "none"
    => (/\ health.status = 200
        /\ health.body.status = "healthy"
        /\ (health.probe.kind # "response" => ~health.body.lm_studio_connected)
        /\ (health.body.lm_studio_connected
              => (health.probe.kind = "response" /\ health.probe.code = 200)))

C6_ProbeTimedOut ==
    /\ health.probe.kind = "timeout"
    /\ health.status = 200
    /\ ~health.body.lm_studio_connected

\* the distinct calendar months (year, month) of the rows
CalendarMonths(rows) == { <<rows[i].date.y, rows[i].date.m>> : i \in 1..Len(rows) }

CountOfType(chunks, type) ==
    Cardinality({ i \in 1..Len(chunks) : chunks[i].metadata.type = type })

\* C7: for every non-empty row sequence, process_excel_data returns one
\* monthly_summary chunk per distinct calendar month, one category_summary
\* chunk per distinct category and one transaction chunk per row, and
\* nothing else.
C7_ChunkCounts ==
    (peChunks.done /\ peRows # <<>>)
    => LET chunks == peChunks.chunks
       IN /\ CountOfType(chunks, "monthly_summary") = Cardinality(CalendarMonths(peRows))
          /\ CountOfType(chunks, "category_summary") = Cardinality(CategoriesOf(peRows))
          /\ CountOfType(chunks, "transaction") = Len(peRows)
          /\ Len(chunks) = Cardinality(CalendarMonths(peRows))
                           + Cardinality(CategoriesOf(peRows)) + Len(peRows)

C7_CoffeeAndRent ==
    /\ peChunks.done
    /\ peRows = <<Coffee, Rent>>
    /\ Len(peChunks.chunks) = 5
    /\ peChunks.chunks[1].metadata.type = "monthly_summary"
    /\ peChunks.chunks[1].text.total = 120450
    /\ peChunks.chunks[1].text.count = 2

\* C8: a chat interleaved with an upload replacing the same user's populated
\* collection may find the collection missing (404) or created and still
\* empty, and it never retrieves records of two uploads together.
C8_NoMixedRetrieval == \A c \in DOMAIN ch : OneUpload(ch[c].retrieved)

C8_BothObserved ==
    \E r \in DOMAIN up, c1, c2 \in DOMAIN ch :
        /\ up[r].pc = "add" /\ up[r].replaced
        /\ ch[c1].pc = "done" /\ ch[c1].user = up[r].user
        /\ ch[c1].during = {r} /\ ch[c1].status = 404
        /\ ch[c2].pc = "done" /\ ch[c2].user = up[r].user
        /\ ch[c2].during = {r} /\ ch[c2].status = 200
        /\ ch[c2].retrieved = <<>>

\* C9: an upload rejected at validation (its filename, or a missing column)
\* takes no step on the vector index: the step that rejects it leaves every
\* collection as it was, and the request takes no other step.
C9_RejectedLeavesIndex ==
    [][\A r \in DOMAIN up :
          /\ (up[r].pc = "idle" /\ up'[r].pc = "done") => index' = index
          /\ up[r].pc = "done" => up'[r] = up[r]]_vars

C9_RejectedBesideData ==
    \E r0, r \in DOMAIN up :
        /\ Succeeded(r0) /\ up[r0].stored # <<>>
        /\ up[r].pc = "done" /\ up[r].user = up[r0].user
        /\ up[r].missing # <<>>
        /\ index[NameOf(r0)].docs = up[r0].stored

\* the step in which upload r, validated, fails at its embedding or its add
FailsAtAdd(r) == up[r].pc = "add" /\ up'[r].pc = "done" /\ up'[r].status # 200

\* C10, as claimed: an upload that fails at its embedding or its add returns
\* a 500-class result and leaves the index with its newly created, empty
\* collection (which a chat then finds).
C10_FailureLeavesEmptyCollection ==
    [][\A r \in DOMAIN up :
          FailsAtAdd(r)
          => (/\ up'[r].status \in 500..599
              /\ index'[NameOf(r)] = NewCollection(r, up[r].user))]_vars

\* C10, amended: such an upload returns a 500-class result and its failing
\* step changes nothing in the index (no rollback): the collection it created
\* is there, empty, unless another upload on the same collection name has
\* deleted or replaced it in the meantime; and a chat that looks up a
\* collection the index holds does not take the 404 path.
C10_FailureRollsNothingBack ==
    [][/\ \A r \in DOMAIN up :
             FailsAtAdd(r)
             => (/\ up'[r].status \in 500..599
                 /\ index' = index
                 /\ index[NameOf(r)].uid = r
                      => index'[NameOf(r)] = NewCollection(r, up[r].user))
       /\ \A c \in DOMAIN ch :
             (/\ ch[c].pc = "idle" /\ ch'[c].pc # "idle"
              /\ index[CollectionName(ch'[c].user)] # NoColl)
             => ch'[c].status # 404]_vars

C10_EmptyAfterFailure ==
    \E r0, r \in DOMAIN up, c \in DOMAIN ch :
        /\ Succeeded(r0) /\ up[r0].stored # <<>>
        /\ up[r].pc = "done" /\ up[r].user = up[r0].user
        /\ up[r].status = 500 /\ up[r].detail \in {"embedding failed", "add failed"}
        /\ index[NameOf(r)] = NewCollection(r, up[r].user)
        /\ ch[c].user = up[r].user /\ ch[c].during = {}
        /\ ch[c].status = 200 /\ ch[c].retrieved = <<>>

====
